---- MODULE Spec2Model ----
(***************************************************************************)
(* Control loop of the robotic limb firmware (src/src/main.rs) together    *)
(* with the servo model it drives (src/src/servo.rs).                      *)
(*                                                                         *)
(* Vectors are TLA+ sequences, so the Rust index k is position k + 1; the  *)
(* operator At hides the shift.  Bytes are 0..255 and angles are u16.      *)
(* The loop is cut into steps at the calls it makes (receive, match, one   *)
(* set_angle per servo, status render, reply); pc is the loop's position.  *)
(***************************************************************************)
EXTENDS Integers, Sequences, FiniteSets, TLC

VARIABLES
    pc,            \* position of the control loop
    servos,        \* Vec<Servo>, five entries in joint order
    ctrl_vec,      \* reusable receive / acknowledgment buffer
    from_addr,     \* source address of the datagram being processed
    servo_string,  \* status string rebuilt by the SetAngles branch
    oled,          \* text last handed to the display
    rx,            \* what the last receive returned and the state it found
    events,        \* calls made since the last receive, in order
    received,      \* datagrams and receive errors taken so far
    led,           \* level of the indicator pin (gpio4)
    timer,         \* hardware timer00 as the startup code leaves it
    clock,         \* parity of the alarm periods of real time gone by
    wifi           \* the call wifi_setup::wifi(..) that startup makes

\* what the timer interrupt handler owns, the timer that drives it, and the
\* time that drives the timer
hb == <<led, timer, clock>>

vars == <<pc, servos, ctrl_vec, from_addr, servo_string, oled, rx, events, received,
          led, timer, clock, wifi>>

----------------------------------------------------------------------------
(* Program constants *)

MAX_CONTROL_SIGNAL_SIZE == 11

\* LEDC timer resolution Bits12: the channel's maximum duty is 2^12 - 1
MaxDuty == 4095

\* MIUZEI_MINI_MIN_DUTY = 0.024 and MIUZEI_MINI_MAX_DUTY = 0.11, in thousandths
MIUZEI_MINI_MIN_DUTY == 24
MIUZEI_MINI_MAX_DUTY == 110

MaxAngleDegrees == 180

\* MIUZEI_MIN_DUTY = 0.018 and MIUZEI_MAX_DUTY = 0.11, in thousandths: the
\* second servo calibration the source defines (no servo is built with it)
MIUZEI_MIN_DUTY == 18
MIUZEI_MAX_DUTY == 110

\* alarm_time_us: the alarm value, in timer ticks of one microsecond
alarm_time_us == 1000000

SentinelAddr == "0.0.0.0:8080"

ServoNames == <<"Top", "Shoulder", "Upper Arm", "Elbow", "Lower Arm">>

----------------------------------------------------------------------------
(* Bounds of the model *)

\* datagrams and receive errors the loop is followed through
MaxReceived == 2

\* failing hardware or socket calls injected between two receives
MaxFaults == 1

----------------------------------------------------------------------------
(* Helpers *)

At(v, k) == v[k + 1]

Min(a, b) == IF a < b THEN a ELSE b

\* f32::round on a non-negative quotient n / d: half away from zero.
\* With max duty 4095 (min_angle_duty 98, duty_interval 352) the f32
\* evaluation of get_servo_duty, (352 as f32 * (angle as f32 / 180 as f32)),
\* rounds to the same integer as the exact quotient for every u16 angle.
Round(n, d) == (2 * n + d) \div (2 * d)

Zeros(n) == [k \in 1..n |-> 0]

----------------------------------------------------------------------------
(* servo.rs *)

\* Servo::new: the calibration is fixed at construction, angle and goal are 0
ServoNew(name, min_permille, max_permille, max_angle_degrees) ==
    LET min_angle_duty == Round(MaxDuty * min_permille, 1000)
        max_angle_duty == Round(MaxDuty * max_permille, 1000)
    IN  [name |-> name,
         angle |-> 0,
         goal |-> 0,
         deg_s |-> 2,
         min_angle_duty |-> min_angle_duty,
         duty_interval |-> max_angle_duty - min_angle_duty,
         max_angle_degrees |-> max_angle_degrees]

\* faulty variant of get_servo_duty: the minimum duty is not added
get_servo_duty_no_offset(self, angle) ==
    Round(self.duty_interval * angle, self.max_angle_degrees)

\* Servo::get_servo_duty
get_servo_duty(self, angle) ==
    Round(self.duty_interval * angle, self.max_angle_degrees) + self.min_angle_duty

\* faulty variant of set_angle: the stored values are held within the travel
set_angle_clamped(self, goal) ==
    [self EXCEPT !.goal = Min(goal, self.max_angle_degrees),
                 !.angle = Min(goal, self.max_angle_degrees)]

\* Servo::set_angle: the fields it assigns (the duty write is an event of
\* the SetAngle step; its failure is only logged)
set_angle(self, goal) == [self EXCEPT !.goal = goal, !.angle = goal]

\* Servo::get_angle
get_angle(self) == self.angle

\* Servo::to_string: the source literal ends in the two characters
\* U+00C2 U+00B0 (an A with circumflex, then the degree sign)
to_string(self) == self.name \o ": " \o ToString(self.angle) \o "Â°"

----------------------------------------------------------------------------
(* main.rs: byte conversions *)

\* faulty variant of from_be_bytes: the pair read low byte first
from_le_bytes(hi, lo) == lo * 256 + hi

\* u16::from_be_bytes([hi, lo])
from_be_bytes(hi, lo) == hi * 256 + lo

\* `x as u8` for a u16
as_u8(x) == x % 256

\* faulty variant of AngleBytes: the high byte is pushed without the shift
AngleBytesNoShift(svs) ==
    [k \in 1..(2 * Len(svs)) |->
        IF k % 2 = 1 THEN as_u8(get_angle(svs[(k + 1) \div 2]))
                     ELSE as_u8(get_angle(svs[k \div 2]))]

\* the two pushes made per servo when an acknowledgment is built:
\* get_angle() as u8, then (get_angle() >> 8) as u8
AngleBytes(svs) ==
    [k \in 1..(2 * Len(svs)) |->
        IF k % 2 = 1 THEN as_u8(get_angle(svs[(k + 1) \div 2]))
                     ELSE as_u8(get_angle(svs[k \div 2]) \div 256)]

\* the status text built by the SetAngles branch
StatusString(svs) ==
    "Servo Positions:\n" \o to_string(At(svs, 0)) \o "\n" \o to_string(At(svs, 1))
        \o "\n" \o to_string(At(svs, 2)) \o "\n" \o to_string(At(svs, 3))
        \o "\n" \o to_string(At(svs, 4))

\* faulty variant of MatchArm: Config is handled as SetAngles
MatchArmConfigAsSetAngles(kind) ==
    CASE kind = 0 -> "set_angles"
      [] kind = 1 -> "ping"
      [] kind = 2 -> "set_angles"
      [] OTHER    -> "invalid"

\* faulty variant of MatchArm: an unassigned kind byte falls into the Ping arm
MatchArmUnknownAsPing(kind) ==
    CASE kind = 0 -> "set_angles"
      [] kind = 2 -> "config"
      [] OTHER    -> "ping"

\* which arm of `match ctrl_vec[0]` is taken
MatchArm(kind) ==
    CASE kind = 0 -> "set_angles"
      [] kind = 1 -> "ping"
      [] kind = 2 -> "config"
      [] OTHER    -> "invalid"

----------------------------------------------------------------------------
(* main.rs: recv_data *)

\* socket.recv_from(buf): the datagram is copied over the front of the
\* slice, cut to the slice's length; the rest of the slice keeps its bytes
CopyInto(buf, bytes) ==
    LET n == Min(Len(bytes), Len(buf))
    IN  [k \in 1..Len(buf) |-> IF k <= n THEN bytes[k] ELSE buf[k]]

\* faulty variant of recv_data: a transport error leaves the buffer as it was
recv_data_keeps_buffer(buf, io) ==
    CASE io.kind = "Ok" ->
            LET b == CopyInto(buf, io.bytes)
            IN  [some |-> TRUE, buf |-> b, data |-> b, addr |-> io.src]
      [] io.kind = "WouldBlock" ->
            [some |-> FALSE, buf |-> buf, data |-> <<>>, addr |-> "none"]
      [] OTHER ->
            [some |-> TRUE, buf |-> buf, data |-> buf, addr |-> SentinelAddr]

\* faulty variant of recv_data: WouldBlock is not told apart from the other
\* errors
recv_data_no_would_block(buf, io) ==
    CASE io.kind = "Ok" ->
            LET b == CopyInto(buf, io.bytes)
            IN  [some |-> TRUE, buf |-> b, data |-> b, addr |-> io.src]
      [] OTHER ->
            LET z == Zeros(Len(buf))
            IN  [some |-> TRUE, buf |-> z, data |-> z, addr |-> SentinelAddr]

\* recv_data(socket, buf) for one outcome io of recv_from
recv_data(buf, io) ==
    CASE io.kind = "Ok" ->
            LET b == CopyInto(buf, io.bytes)
            IN  [some |-> TRUE, buf |-> b, data |-> b, addr |-> io.src]
      [] io.kind = "WouldBlock" ->
            [some |-> FALSE, buf |-> buf, data |-> <<>>, addr |-> "none"]
      [] OTHER ->
            LET z == Zeros(Len(buf))
            IN  [some |-> TRUE, buf |-> z, data |-> z, addr |-> SentinelAddr]

----------------------------------------------------------------------------
(* What the network can deliver *)

\* kind bytes other than SetAngles: Ping, Config and an unassigned one
OtherKinds == {1, 2, 7}

\* five big-endian angles: 90, 45, 180, 0, 90 and 256, 200, 0, 65535, 7
Payloads == { <<0, 90, 0, 45, 0, 180, 0, 0, 0, 90>>,
              <<1, 0, 0, 200, 0, 0, 255, 255, 0, 7>> }

\* a command as its sender builds it, followed by one surplus byte
Wire(kind, payload) == <<kind>> \o payload \o <<9>>

\* lengths at which a command arrives: cut short, whole, or over-long
SetAnglesLens == {1, 5, 10, 11, 12}
OtherLens == {1, 11}

Datagrams ==
    { <<>> }
        \cup { SubSeq(Wire(0, payload), 1, n) :
                    payload \in Payloads, n \in SetAnglesLens }
        \cup { SubSeq(Wire(kind, <<0, 90, 0, 45, 0, 180, 0, 0, 0, 90>>), 1, n) :
                    kind \in OtherKinds, n \in OtherLens }

SrcAddrs == {"10.0.0.2:5000", "10.0.0.3:6000"}

\* what the second sender puts on the wire: whole SetAngles and Ping commands
WholeCommands ==
    { SubSeq(Wire(kind, payload), 1, MAX_CONTROL_SIGNAL_SIZE) :
        kind \in {0, 1}, payload \in Payloads }

\* outcomes of one socket.recv_from call
RecvOutcomes ==
    [kind : {"Ok"}, bytes : Datagrams, src : {"10.0.0.2:5000"}]
        \cup [kind : {"Ok"}, bytes : WholeCommands, src : {"10.0.0.3:6000"}]
        \cup { [kind |-> "WouldBlock", bytes |-> <<>>, src |-> "none"],
               [kind |-> "Err", bytes |-> <<>>, src |-> "none"] }

\* failing calls since the last receive
Faults(evs) == Cardinality({k \in 1..Len(evs) : ~evs[k].ok})

\* a socket.send_to among these calls returned an error
SendFailed(evs) == \E k \in 1..Len(evs) : evs[k].call = "send_to" /\ ~evs[k].ok

\* outcomes a hardware or socket call may have now
CallOutcomes == IF Faults(events) < MaxFaults THEN {TRUE, FALSE} ELSE {TRUE}

----------------------------------------------------------------------------
(* main.rs: state on entering the loop *)

\* largest value of the u8 parameter max_retries of wifi_setup::wifi
U8Max == 255

\* the max_retries main passes
MainMaxRetries == 6

\* wifi(..) as it has returned to main when the first connect succeeds
WifiReturned ==
    [pc |-> "connected", max_retries |-> MainMaxRetries, retry_count |-> 0,
     failed |-> 0, calls |-> 1]

StartupText == "Robotic Limb V0.6\nIP Address: \n192.168.4.1"

\* lines 226-252: TimerDriver::new creates the timer paused, with
\* auto-reload; set_alarm, subscribe, enable_interrupt and enable_alarm(true)
\* arm the alarm; the last call, timer.enable(false), leaves the counter
\* paused
TimerAtLoopEntry ==
    [alarm |-> alarm_time_us, auto_reload |-> TRUE, subscribed |-> TRUE,
     interrupt_en |-> TRUE, alarm_en |-> TRUE, counting |-> FALSE]

Init ==
    /\ pc = "recv"
    /\ servos = [k \in 1..5 |->
                    ServoNew(ServoNames[k], MIUZEI_MINI_MIN_DUTY,
                             MIUZEI_MINI_MAX_DUTY, MaxAngleDegrees)]
    /\ ctrl_vec = Zeros(MAX_CONTROL_SIGNAL_SIZE)
    /\ from_addr = "unassigned"
    /\ servo_string = ""
    /\ oled = StartupText
    /\ rx = [kind |-> "none", bytes |-> <<>>, src |-> "none",
             servos |-> servos, buf |-> ctrl_vec, oled |-> oled,
             from_addr |-> from_addr, send_failed |-> FALSE]
    /\ events = <<>>
    /\ received = 0
    /\ led = FALSE
    /\ timer = TimerAtLoopEntry
    /\ clock = FALSE
    /\ wifi = WifiReturned

----------------------------------------------------------------------------
(* main.rs: the loop *)

SetPc == <<"set0", "set1", "set2", "set3", "set4">>

\* display.draw_new_text(0, 7, text): the display shows the text handed over
draw_new_text(shown, text) == text

\* faulty variant of Receive: from_addr is assigned by the first datagram
\* only
ReceiveKeepsFirstAddr ==
    /\ pc = "recv"
    /\ \E io \in RecvOutcomes :
        LET r == recv_data(ctrl_vec, io)
        IN  /\ io.kind # "WouldBlock" => received < MaxReceived
            /\ received' = IF io.kind = "WouldBlock" THEN received ELSE received + 1
            /\ ctrl_vec' = r.buf
            /\ IF r.some /\ Len(r.data) # 0
                  THEN /\ from_addr' = IF from_addr = "unassigned" THEN r.addr
                                                                   ELSE from_addr
                       /\ pc' = "match"
                  ELSE from_addr' = from_addr /\ pc' = "recv"
            /\ rx' = [kind |-> io.kind, bytes |-> io.bytes, src |-> io.src,
                      servos |-> servos, buf |-> ctrl_vec, oled |-> oled,
                      from_addr |-> from_addr, send_failed |-> SendFailed(events)]
    /\ events' = <<>>
    /\ UNCHANGED <<servos, servo_string, oled, hb, wifi>>

\* lines 283-298: recv_data and the match on its result
Receive ==
    /\ pc = "recv"
    /\ \E io \in RecvOutcomes :
        LET r == recv_data(ctrl_vec, io)
        IN  /\ io.kind # "WouldBlock" => received < MaxReceived
            /\ received' = IF io.kind = "WouldBlock" THEN received ELSE received + 1
            /\ ctrl_vec' = r.buf
            /\ IF r.some /\ Len(r.data) # 0
                  THEN from_addr' = r.addr /\ pc' = "match"
                  ELSE from_addr' = from_addr /\ pc' = "recv"
            /\ rx' = [kind |-> io.kind, bytes |-> io.bytes, src |-> io.src,
                      servos |-> servos, buf |-> ctrl_vec, oled |-> oled,
                      from_addr |-> from_addr, send_failed |-> SendFailed(events)]
    /\ events' = <<>>
    /\ UNCHANGED <<servos, servo_string, oled, hb, wifi>>

\* line 299 and the arms that only log (Config, default)
Match ==
    /\ pc = "match"
    /\ LET arm == MatchArm(At(ctrl_vec, 0))
       IN  pc' = CASE arm = "set_angles" -> At(SetPc, 0)
                   [] arm = "ping"       -> "ping"
                   [] OTHER              -> "recv"
    /\ UNCHANGED <<servos, ctrl_vec, from_addr, servo_string, oled, rx, events, received, hb, wifi>>

\* faulty variant of SetAngle: a failed duty write leaves the stored angle as
\* it was
SetAngleRollback(i) ==
    /\ pc = At(SetPc, i)
    /\ LET goal == from_be_bytes(At(ctrl_vec, 2 * i + 1), At(ctrl_vec, 2 * i + 2))
           duty == get_servo_duty(At(servos, i), goal)
       IN  \E ok \in CallOutcomes :
              /\ servos' = IF ok THEN [servos EXCEPT ![i + 1] = set_angle(@, goal)]
                                 ELSE servos
              /\ events' = Append(events, [call |-> "set_duty", who |-> i,
                                           what |-> duty, ok |-> ok])
    /\ pc' = IF i < 4 THEN At(SetPc, i + 1) ELSE "render"
    /\ UNCHANGED <<ctrl_vec, from_addr, servo_string, oled, rx, received, hb, wifi>>

\* faulty variant of SetAngle: after the last servo the branch goes straight
\* to the acknowledgment, without the status render
SetAngleThenReply(i) ==
    /\ pc = At(SetPc, i)
    /\ LET goal == from_be_bytes(At(ctrl_vec, 2 * i + 1), At(ctrl_vec, 2 * i + 2))
           duty == get_servo_duty(At(servos, i), goal)
       IN  /\ servos' = [servos EXCEPT ![i + 1] = set_angle(@, goal)]
           /\ \E ok \in CallOutcomes :
                events' = Append(events, [call |-> "set_duty", who |-> i,
                                          what |-> duty, ok |-> ok])
    /\ pc' = IF i < 4 THEN At(SetPc, i + 1) ELSE "reply"
    /\ UNCHANGED <<ctrl_vec, from_addr, servo_string, oled, rx, received, hb, wifi>>

\* lines 301-305: servos[i].set_angle(u16::from_be_bytes([..]))
SetAngle(i) ==
    /\ pc = At(SetPc, i)
    /\ LET goal == from_be_bytes(At(ctrl_vec, 2 * i + 1), At(ctrl_vec, 2 * i + 2))
           duty == get_servo_duty(At(servos, i), goal)
       IN  /\ servos' = [servos EXCEPT ![i + 1] = set_angle(@, goal)]
           /\ \E ok \in CallOutcomes :
                events' = Append(events, [call |-> "set_duty", who |-> i,
                                          what |-> duty, ok |-> ok])
    /\ pc' = IF i < 4 THEN At(SetPc, i + 1) ELSE "render"
    /\ UNCHANGED <<ctrl_vec, from_addr, servo_string, oled, rx, received, hb, wifi>>

\* lines 307-319: rebuild the status string and hand it to the display
Render ==
    /\ pc = "render"
    /\ servo_string' = StatusString(servos)
    /\ oled' = draw_new_text(oled, servo_string')
    /\ events' = Append(events, [call |-> "draw_new_text", who |-> "display",
                                 what |-> servo_string', ok |-> TRUE])
    /\ pc' = "reply"
    /\ UNCHANGED <<servos, ctrl_vec, from_addr, rx, received, hb, wifi>>

\* faulty variant of Reply: the buffer is not padded after the send
ReplyNoPad ==
    /\ pc = "reply"
    /\ LET ack == AngleBytes(servos)
       IN  /\ \E ok \in CallOutcomes :
                events' = Append(events, [call |-> "send_to", who |-> from_addr,
                                          what |-> ack, ok |-> ok])
           /\ ctrl_vec' = ack
    /\ pc' = "recv"
    /\ UNCHANGED <<servos, from_addr, servo_string, oled, rx, received, hb, wifi>>

\* faulty variant of Reply: a failed send is attempted a second time
ReplyRetries ==
    /\ pc = "reply"
    /\ LET ack == AngleBytes(servos)
           sent(ok) == [call |-> "send_to", who |-> from_addr,
                        what |-> ack, ok |-> ok]
       IN  /\ \E ok \in CallOutcomes :
                events' = IF ok THEN Append(events, sent(TRUE))
                                ELSE Append(Append(events, sent(FALSE)), sent(TRUE))
           /\ ctrl_vec' = Append(ack, 0)
    /\ pc' = "recv"
    /\ UNCHANGED <<servos, from_addr, servo_string, oled, rx, received, hb, wifi>>

\* lines 321-330: the acknowledgment is built in ctrl_vec, sent, and the
\* buffer is padded back to 11 bytes
Reply ==
    /\ pc = "reply"
    /\ LET ack == AngleBytes(servos)
       IN  /\ \E ok \in CallOutcomes :
                events' = Append(events, [call |-> "send_to", who |-> from_addr,
                                          what |-> ack, ok |-> ok])
           /\ ctrl_vec' = Append(ack, 0)
    /\ pc' = "recv"
    /\ UNCHANGED <<servos, from_addr, servo_string, oled, rx, received, hb, wifi>>

\* faulty variant of Ping: the reply is built from a fresh zero state
PingFreshState ==
    /\ pc = "ping"
    /\ LET ping_vec == Zeros(10)
       IN  \E ok \in CallOutcomes :
                events' = Append(events, [call |-> "send_to", who |-> from_addr,
                                          what |-> ping_vec, ok |-> ok])
    /\ pc' = "recv"
    /\ UNCHANGED <<servos, ctrl_vec, from_addr, servo_string, oled, rx, received, hb, wifi>>

\* lines 335-350: Ping
Ping ==
    /\ pc = "ping"
    /\ LET ping_vec == AngleBytes(servos)
       IN  \E ok \in CallOutcomes :
                events' = Append(events, [call |-> "send_to", who |-> from_addr,
                                          what |-> ping_vec, ok |-> ok])
    /\ pc' = "recv"
    /\ UNCHANGED <<servos, ctrl_vec, from_addr, servo_string, oled, rx, received, hb, wifi>>

\* the timer hardware over one alarm period of real time: a counting timer
\* reaches the alarm value, reloads, and with alarm and interrupt enabled
\* runs the subscribed closure (lines 242-244: led.toggle()); a paused timer
\* does not advance while the period goes by
TimerPeriod ==
    /\ clock' = ~clock
    /\ led' = IF timer.counting /\ timer.alarm_en /\ timer.interrupt_en
                    /\ timer.subscribed
                THEN ~led ELSE led
    /\ timer' = timer
    /\ UNCHANGED <<pc, servos, ctrl_vec, from_addr, servo_string, oled, rx, events,
                   received, wifi>>

\* one step of the control loop
Loop ==
    \/ Receive
    \/ Match
    \/ \E i \in 0..4 : SetAngle(i)
    \/ Render
    \/ Reply
    \/ Ping

Next ==
    \/ Receive
    \/ Match
    \/ \E i \in 0..4 : SetAngle(i)
    \/ Render
    \/ Reply
    \/ Ping
    \/ TimerPeriod

Spec == Init /\ [][Next]_vars

\* the loop never blocks and the timer hardware runs on its own
FairSpec == Spec /\ WF_vars(Loop) /\ WF_vars(TimerPeriod)

----------------------------------------------------------------------------
(* Vocabulary of the properties *)

\* the calls of one kind made since the last receive, in order
Calls(name) == SelectSeq(events, LAMBDA e : e.call = name)

\* the last receive delivered a datagram of n bytes
Delivered(n) == rx.kind = "Ok" /\ Len(rx.bytes) = n

\* the last receive delivered a datagram with this kind byte
DeliveredKind(kind) == rx.kind = "Ok" /\ Len(rx.bytes) >= 1 /\ rx.bytes[1] = kind

\* the last receive delivered a SetAngles datagram of fewer than 11 bytes
ShortSetAngles == DeliveredKind(0) /\ Len(rx.bytes) <= 10

Angles(svs) == [k \in 1..Len(svs) |-> svs[k].angle]

\* five angles as an acknowledgment carries them: low byte, then high byte
LittleEndianPairs(angles) ==
    [k \in 1..10 |-> IF k % 2 = 1 THEN angles[(k + 1) \div 2] % 256
                                  ELSE angles[k \div 2] \div 256]

\* the calls since the last receive, reduced to which call on which servo
Signature == [k \in 1..Len(events) |->
                IF events[k].call = "set_duty"
                    THEN <<"set_angle", events[k].who>>
                    ELSE <<events[k].call>>]

SetAnglesSignature ==
    << <<"set_angle", 0>>, <<"set_angle", 1>>, <<"set_angle", 2>>,
       <<"set_angle", 3>>, <<"set_angle", 4>>, <<"draw_new_text">>, <<"send_to">> >>

IsPrefix(s, t) == Len(s) <= Len(t) /\ SubSeq(t, 1, Len(s)) = s

----------------------------------------------------------------------------
(* C1 *)

\* C1: a datagram with kind byte 0 and a length of 1 to 10 bytes is
\* rejected: no actuator's angle changes and no duty is written.
C1_ShortSetAnglesRejected ==
    ShortSetAngles => /\ Angles(servos) = Angles(rx.servos)
                      /\ Calls("set_duty") = <<>>

----------------------------------------------------------------------------
(* C2 *)

\* C2: once an 11-byte datagram with kind byte 0 has been processed,
\* actuator i holds the big-endian u16 of its bytes (2i+1, 2i+2), and exactly
\* one acknowledgment of 10 bytes was sent, holding each actuator's angle as
\* low byte then high byte; the datagram [0,0,90,0,45,0,180,0,0,0,90] gives
\* the angles 90,45,180,0,90 and the acknowledgment [90,0,45,0,180,0,0,0,90,0].
C2_SetAnglesApplied ==
    (pc = "recv" /\ Delivered(11) /\ DeliveredKind(0)) =>
        /\ \A i \in 0..4 :
              At(servos, i).angle = 256 * At(rx.bytes, 2 * i + 1) + At(rx.bytes, 2 * i + 2)
        /\ Len(Calls("send_to")) = 1
        /\ Calls("send_to")[1].what = LittleEndianPairs(Angles(servos))
        /\ rx.bytes = <<0, 0, 90, 0, 45, 0, 180, 0, 0, 0, 90>> =>
              /\ Angles(servos) = <<90, 45, 180, 0, 90>>
              /\ Calls("send_to")[1].what = <<90, 0, 45, 0, 180, 0, 0, 0, 90, 0>>

\* the example datagram has been processed after an earlier command had
\* left other angles
C2_Witness ==
    /\ pc = "recv"
    /\ rx.bytes = <<0, 0, 90, 0, 45, 0, 180, 0, 0, 0, 90>>
    /\ Angles(rx.servos) = <<256, 200, 0, 65535, 7>>
    /\ Angles(servos) = <<90, 45, 180, 0, 90>>
    /\ Len(Calls("send_to")) = 1

----------------------------------------------------------------------------
(* C3 *)

\* C3: every actuator's stored angle is between 0 and its max_angle_degrees.
C3_AngleWithinTravel ==
    \A k \in 1..Len(servos) :
        0 <= servos[k].angle /\ servos[k].angle <= servos[k].max_angle_degrees

----------------------------------------------------------------------------
(* C4 *)

\* C4: every duty that set_angle issues to an actuator's PWM channel lies
\* within [min_duty, min_duty + duty_interval] of that actuator.
C4_DutyWithinCalibration ==
    \A k \in 1..Len(events) :
        events[k].call = "set_duty" =>
            LET sv == At(servos, events[k].who)
            IN  /\ sv.min_angle_duty <= events[k].what
                /\ events[k].what <= sv.min_angle_duty + sv.duty_interval

----------------------------------------------------------------------------
(* C5 *)

\* C5: a Ping datagram (kind byte 1, one byte or more) changes no angle and
\* writes no duty, and once processed exactly one acknowledgment of 10 bytes
\* was sent, holding the angles the actuators had before the Ping.
C5_PingReportsCurrentAngles ==
    DeliveredKind(1) =>
        /\ Angles(servos) = Angles(rx.servos)
        /\ Calls("set_duty") = <<>>
        /\ pc = "recv" =>
              /\ Len(Calls("send_to")) = 1
              /\ Calls("send_to")[1].what = LittleEndianPairs(Angles(rx.servos))

\* a one-byte Ping was answered while the angles were not all zero
C5_Witness ==
    /\ pc = "recv"
    /\ rx.kind = "Ok"
    /\ rx.bytes = <<1>>
    /\ Angles(servos) = <<256, 200, 0, 65535, 7>>
    /\ Len(Calls("send_to")) = 1
    /\ Calls("send_to")[1].what = <<0, 1, 200, 0, 0, 0, 255, 255, 7, 0>>

----------------------------------------------------------------------------
(* C6 *)

\* C6: a zero-length datagram is rejected as too short: no actuator angle
\* changes, the display is not updated and no reply is sent.
C6_EmptyDatagramRejected ==
    Delivered(0) => /\ Angles(servos) = Angles(rx.servos)
                    /\ oled = rx.oled
                    /\ Calls("draw_new_text") = <<>>
                    /\ Calls("send_to") = <<>>

----------------------------------------------------------------------------
(* C7 *)

\* C7: a datagram of one byte or more whose kind byte is not 0, 1 or 2
\* leaves every angle unchanged, does not update the display and causes no
\* reply; the loop proceeds to the next receive.
C7_UnknownKindDropped ==
    (rx.kind = "Ok" /\ Len(rx.bytes) >= 1 /\ rx.bytes[1] \notin {0, 1, 2}) =>
        /\ Angles(servos) = Angles(rx.servos)
        /\ oled = rx.oled
        /\ events = <<>>
        /\ pc \in {"match", "recv"}

\* a datagram of kind 7 was dropped while the angles were not all zero
C7_Witness ==
    /\ pc = "recv"
    /\ rx.kind = "Ok"
    /\ Len(rx.bytes) = 11
    /\ rx.bytes[1] = 7
    /\ Angles(servos) = <<90, 45, 180, 0, 90>>
    /\ events = <<>>

----------------------------------------------------------------------------
(* C8 *)

\* C8: a datagram of kind 0 with fewer than 11 bytes never causes an
\* acknowledgment to be sent.
C8_ShortSetAnglesNotAcknowledged ==
    ShortSetAngles => Calls("send_to") = <<>>

----------------------------------------------------------------------------
(* C9 *)

\* C9: a WouldBlock result leaves the actuator angles, the receive buffer
\* and the display unchanged, sends nothing, and the loop is back at the
\* receive.
C9_WouldBlockIsInert ==
    rx.kind = "WouldBlock" =>
        /\ servos = rx.servos
        /\ ctrl_vec = rx.buf
        /\ oled = rx.oled
        /\ events = <<>>
        /\ pc = "recv"

\* WouldBlock came after a SetAngles had moved the actuators and left its
\* acknowledgment in the buffer
C9_Witness ==
    /\ rx.kind = "WouldBlock"
    /\ pc = "recv"
    /\ Angles(servos) = <<90, 45, 180, 0, 90>>
    /\ ctrl_vec = <<90, 0, 45, 0, 180, 0, 0, 0, 90, 0, 0>>

----------------------------------------------------------------------------
(* C10 *)

\* C10: while one SetAngles command is processed the calls are made in the
\* order set_angle on actuators 0,1,2,3,4, then the status text to the
\* display, then the acknowledgment send; the sequence is complete when the
\* loop is back at the receive, and no receive happens in the middle of it.
C10_SetAnglesOrder ==
    /\ [](/\ IsPrefix(Signature, SetAnglesSignature) \/ Signature = << <<"send_to">> >>
          /\ (pc = "recv" /\ Delivered(11) /\ DeliveredKind(0)) =>
                Signature = SetAnglesSignature
          /\ (pc = "recv" /\ events # <<>>) => events[Len(events)].call = "send_to")
    /\ [][rx' # rx =>
            Signature \in {<<>>, SetAnglesSignature, << <<"send_to">> >>}]_vars

\* a whole SetAngles command went through all seven calls
C10_Witness ==
    /\ pc = "recv"
    /\ Delivered(11)
    /\ DeliveredKind(0)
    /\ Len(events) = 7
    /\ Angles(servos) # Angles(rx.servos)

----------------------------------------------------------------------------
(* C11 *)

\* C11: every acknowledgment triggered by a datagram received from the
\* socket is sent to the source address of that same datagram, never to the
\* address of an earlier sender.
C11_AckGoesToSender ==
    rx.kind = "Ok" =>
        /\ pc # "recv" => from_addr = rx.src
        /\ \A k \in 1..Len(events) :
              events[k].call = "send_to" => events[k].who = rx.src

\* an acknowledgment went out while the previous datagram had come from
\* the other sender
C11_Witness ==
    /\ pc = "recv"
    /\ rx.kind = "Ok"
    /\ rx.from_addr \in SrcAddrs
    /\ rx.from_addr # rx.src
    /\ Len(Calls("send_to")) = 1
    /\ Calls("send_to")[1].who = rx.src

----------------------------------------------------------------------------
(* One SetAngles command, swept over its angle values *)

\* calibration pairs (min, max, in thousandths) the source defines
Calibrations == { <<MIUZEI_MINI_MIN_DUTY, MIUZEI_MINI_MAX_DUTY>>,
                  <<MIUZEI_MIN_DUTY, MIUZEI_MAX_DUTY>> }

\* angles every angle of the travel is compared with
AngleGrid == {0, 1, 45, 90, 135, 179, 180}

\* u16 values around the byte boundary and at both ends
U16Samples == {0, 255, 256, 65535}

\* a, its successor (one past the travel for the last a), a grid angle, and
\* both ends of the travel
DutyAngles ==
    { <<a, a + 1, b, 0, MaxAngleDegrees>> :
        a \in 0..MaxAngleDegrees, b \in AngleGrid }

RoundTripAngles ==
    { <<v0, v1, v2, v3, v4>> :
        v0 \in U16Samples, v1 \in U16Samples, v2 \in U16Samples,
        v3 \in U16Samples, v4 \in U16Samples }

\* the 11 bytes a sender puts on the wire for five angles: kind 0, then each
\* angle high byte first
Command(angles) ==
    [k \in 1..MAX_CONTROL_SIGNAL_SIZE |->
        IF k = 1 THEN 0
        ELSE IF k % 2 = 0 THEN angles[k \div 2] \div 256
                          ELSE angles[(k - 1) \div 2] % 256]

\* the loop has just received its first datagram, a whole SetAngles command
SweepInit ==
    \E cal \in Calibrations :
    \E angles \in DutyAngles \cup RoundTripAngles :
    \E src \in SrcAddrs :
        /\ src = "10.0.0.2:5000"
        /\ pc = "match"
        /\ servos = [k \in 1..5 |->
                        ServoNew(ServoNames[k], cal[1], cal[2], MaxAngleDegrees)]
        /\ ctrl_vec = CopyInto(Zeros(MAX_CONTROL_SIGNAL_SIZE), Command(angles))
        /\ from_addr = src
        /\ servo_string = ""
        /\ oled = StartupText
        /\ rx = [kind |-> "Ok", bytes |-> Command(angles), src |-> src,
                 servos |-> servos, buf |-> Zeros(MAX_CONTROL_SIGNAL_SIZE),
                 oled |-> oled, from_addr |-> "unassigned", send_failed |-> FALSE]
        /\ events = <<>>
        /\ received = 1
        /\ led = FALSE
        /\ timer = TimerAtLoopEntry
        /\ clock = FALSE
        /\ wifi = WifiReturned

\* the command is processed to its end
SweepNext ==
    \/ Match
    \/ \E i \in 0..4 : SetAngle(i)
    \/ Render
    \/ Reply

SweepSpec == SweepInit /\ [][SweepNext]_vars

\* the angle the command being processed carries for servo i
Commanded(i) == 256 * At(rx.bytes, 2 * i + 1) + At(rx.bytes, 2 * i + 2)

\* the calls that issued a duty, as positions in events
DutyCalls == {k \in 1..Len(events) : events[k].call = "set_duty"}

----------------------------------------------------------------------------
(* C12 *)

\* C12: for a fixed calibration and angles a <= b within the travel,
\* get_servo_duty(a) <= get_servo_duty(b); get_servo_duty(0) = min_duty and
\* get_servo_duty(max_angle_degrees) = min_duty + duty_interval; and
\* get_servo_duty(angle) = round(duty_interval * angle / max_angle_degrees)
\* + min_duty.
C12_DutyMonotone ==
    \A j \in DutyCalls :
        LET sv == At(servos, events[j].who)
            a  == Commanded(events[j].who)
        IN  a <= sv.max_angle_degrees =>
              /\ events[j].what =
                    (2 * sv.duty_interval * a + sv.max_angle_degrees)
                        \div (2 * sv.max_angle_degrees) + sv.min_angle_duty
              /\ a = 0 => events[j].what = sv.min_angle_duty
              /\ a = sv.max_angle_degrees =>
                    events[j].what = sv.min_angle_duty + sv.duty_interval
              /\ \A k \in DutyCalls :
                    (a <= Commanded(events[k].who)
                        /\ Commanded(events[k].who) <= sv.max_angle_degrees)
                    => events[j].what <= events[k].what

\* duties were issued for 89, 90 and 135 degrees and for both ends of the
\* travel, under the calibration no servo is built with
C12_Witness ==
    /\ pc = "recv"
    /\ Len(events) = 7
    /\ At(servos, 0).min_angle_duty = 74
    /\ <<Commanded(0), Commanded(1), Commanded(2), Commanded(3), Commanded(4)>>
            = <<89, 90, 135, 0, 180>>
    /\ events[1].what < events[2].what
    /\ events[2].what < events[3].what
    /\ events[4].what = 74
    /\ events[5].what = 450

----------------------------------------------------------------------------
(* C13 *)

\* C13: five u16 values sent big-endian in bytes 1..10 of a SetAngles
\* command, applied, and read back from the acknowledgment as little-endian
\* pairs are the same five values in the same joint order.
C13_AnglesRoundTrip ==
    (pc = "recv" /\ Delivered(11) /\ DeliveredKind(0)) =>
        /\ Len(Calls("send_to")) = 1
        /\ Len(Calls("send_to")[1].what) = 10
        /\ \A i \in 0..4 :
              LET ack == Calls("send_to")[1].what
              IN  At(ack, 2 * i) + 256 * At(ack, 2 * i + 1) = Commanded(i)

\* values whose two bytes differ went through the round trip
C13_Witness ==
    /\ pc = "recv"
    /\ rx.bytes = Command(<<256, 255, 65535, 0, 256>>)
    /\ Len(Calls("send_to")) = 1
    /\ Calls("send_to")[1].what = <<0, 1, 255, 0, 255, 255, 0, 0, 0, 1>>

\* ---------------------------------------------------------------------
\* C14: once startup is complete the heartbeat runs for the whole process
\* lifetime: under fair firing of the hardware timer the indicator output
\* is toggled infinitely often, whatever the control loop is doing.
\* Checked under FairSpec, where alarm periods go by forever.  The timer
\* reaches the loop paused (timer.enable(false), and the only enable(true)
\* is commented out), so no alarm is ever raised and the indicator keeps its
\* startup level.
C14_HeartbeatForever == []<>(<<led' # led>>_vars)

----------------------------------------------------------------------------
(* C15 *)

\* C15: when the receive fails with an error other than WouldBlock, the
\* buffer is zeroed and the iteration runs as a SetAngles command with five
\* angles 0: the same calls in the same order as a SetAngles command, every
\* actuator's angle 0 at the end, the display given the new status text, one
\* acknowledgment of ten zero bytes sent to 0.0.0.0:8080, and the loop back
\* at the receive step.
C15_TransportErrorZeroes ==
    rx.kind = "Err" =>
        /\ IsPrefix(Signature, SetAnglesSignature)
        /\ pc = "match" => ctrl_vec = Zeros(MAX_CONTROL_SIGNAL_SIZE)
        /\ pc # "recv" => from_addr = SentinelAddr
        /\ pc = "recv" =>
              /\ Signature = SetAnglesSignature
              /\ Angles(servos) = <<0, 0, 0, 0, 0>>
              /\ Calls("draw_new_text")[1].what = StatusString(servos)
              /\ oled = draw_new_text(rx.oled, StatusString(servos))
              /\ Calls("send_to")[1].what = Zeros(10)
              /\ Calls("send_to")[1].who = SentinelAddr

\* a transport error has been processed to the end after a command had left
\* non-zero angles and a real sender's address
C15_Witness ==
    /\ pc = "recv"
    /\ rx.kind = "Err"
    /\ Angles(rx.servos) = <<90, 45, 180, 0, 90>>
    /\ rx.from_addr \in SrcAddrs
    /\ Angles(servos) = <<0, 0, 0, 0, 0>>
    /\ Len(Calls("send_to")) = 1

----------------------------------------------------------------------------
(* C16 *)

\* the buffer as the last receive left it for the match
ReceivedBuffer ==
    recv_data(rx.buf, [kind |-> rx.kind, bytes |-> rx.bytes, src |-> rx.src]).buf

\* the angle that buffer carries for servo i
BufferedAngle(i) ==
    256 * At(ReceivedBuffer, 2 * i + 1) + At(ReceivedBuffer, 2 * i + 2)

\* C16: if the duty write inside set_angle fails, the actuator's stored
\* angle is still the commanded value, the remaining actuators of the same
\* command are still written, the acknowledgment reports the commanded
\* angles, and the loop is back at the receive step.
C16_DutyFailureKeepsAngle ==
    \A j \in DutyCalls :
        ~events[j].ok =>
            /\ At(servos, events[j].who).angle = BufferedAngle(events[j].who)
            /\ IsPrefix(Signature, SetAnglesSignature)
            /\ pc = "recv" =>
                  /\ Signature = SetAnglesSignature
                  /\ \A i \in 0..4 : At(servos, i).angle = BufferedAngle(i)
                  /\ Calls("send_to")[1].what =
                        LittleEndianPairs([k \in 1..5 |-> BufferedAngle(k - 1)])

\* the duty write of the third servo failed while the angles went from
\* 256, 200, 0, 65535, 7 to 90, 45, 180, 0, 90, and the command ran to its end
C16_Witness ==
    /\ pc = "recv"
    /\ Len(events) = 7
    /\ events[3].call = "set_duty" /\ ~events[3].ok
    /\ Angles(rx.servos) = <<256, 200, 0, 65535, 7>>
    /\ Angles(servos) = <<90, 45, 180, 0, 90>>
    /\ Calls("send_to")[1].what = <<90, 0, 45, 0, 180, 0, 0, 0, 90, 0>>

----------------------------------------------------------------------------
(* C17 *)

\* C17: set_angle does not clamp: for a commanded angle greater than
\* max_angle_degrees the stored angle is the commanded value and the duty
\* issued is round(duty_interval * angle / max_angle_degrees) + min_duty,
\* which is strictly greater than min_duty + duty_interval.
\* Checked under SweepSpec (181, 255, 256 and 65535 degrees on a travel of
\* 180, both calibrations).
C17_NoClamp ==
    \A j \in DutyCalls :
        LET sv == At(servos, events[j].who)
            a  == Commanded(events[j].who)
        IN  a > sv.max_angle_degrees =>
              /\ sv.angle = a
              /\ sv.goal = a
              /\ 2 * (events[j].what - sv.min_angle_duty) * sv.max_angle_degrees
                    <= 2 * sv.duty_interval * a + sv.max_angle_degrees
              /\ 2 * (events[j].what - sv.min_angle_duty) * sv.max_angle_degrees
                    > 2 * sv.duty_interval * a - sv.max_angle_degrees
              /\ events[j].what > sv.min_angle_duty + sv.duty_interval

\* one degree past the travel has been commanded, stored and turned into a
\* duty past the calibrated interval
C17_Witness ==
    /\ pc = "recv"
    /\ \E i \in 0..4 : Commanded(i) = MaxAngleDegrees + 1
                        /\ At(servos, i).angle = MaxAngleDegrees + 1
                        /\ \E j \in DutyCalls :
                              /\ events[j].who = i
                              /\ events[j].what > At(servos, i).min_angle_duty
                                                    + At(servos, i).duty_interval

----------------------------------------------------------------------------
(* C18 *)

\* C18: a failed acknowledgment send, of SetAngles or of Ping, is not
\* retried (one send attempt per processed command at most) and leaves the
\* loop at the receive step; the well-formed datagram that comes next is
\* processed as usual.
C18_SendFailureNoRetry ==
    /\ Len(Calls("send_to")) <= 1
    /\ SendFailed(events) => pc = "recv"
    /\ (rx.send_failed /\ pc = "recv" /\ Delivered(MAX_CONTROL_SIGNAL_SIZE)) =>
          /\ DeliveredKind(0) =>
                /\ Signature = SetAnglesSignature
                /\ \A i \in 0..4 : At(servos, i).angle = Commanded(i)
                /\ Calls("send_to")[1].what = LittleEndianPairs(Angles(servos))
          /\ DeliveredKind(1) =>
                /\ Signature = << <<"send_to">> >>
                /\ Angles(servos) = Angles(rx.servos)
                /\ Calls("send_to")[1].what = LittleEndianPairs(Angles(servos))

\* the send of the iteration before failed, and the SetAngles command that
\* came next has changed the angles and been acknowledged
C18_Witness ==
    /\ pc = "recv"
    /\ rx.send_failed
    /\ Delivered(MAX_CONTROL_SIGNAL_SIZE) /\ DeliveredKind(0)
    /\ Angles(rx.servos) = <<256, 200, 0, 65535, 7>>
    /\ Angles(servos) = <<90, 45, 180, 0, 90>>
    /\ Len(Calls("send_to")) = 1 /\ Calls("send_to")[1].ok

----------------------------------------------------------------------------
(* C19 *)

\* C19: a Config datagram (kind byte 2, one byte or more) is a no-op in
\* every reachable state: no actuator angle changes, no duty is written, the
\* display is not updated and no reply is sent.
C19_ConfigIsNoOp ==
    DeliveredKind(2) =>
        /\ servos = rx.servos
        /\ oled = rx.oled
        /\ Calls("set_duty") = <<>>
        /\ Calls("draw_new_text") = <<>>
        /\ Calls("send_to") = <<>>
        /\ pc \in {"match", "recv"}

\* a Config datagram of a single byte has gone through the match while the
\* angles were not all zero and the buffer still held an acknowledgment
C19_Witness ==
    /\ pc = "recv"
    /\ DeliveredKind(2)
    /\ Len(rx.bytes) = 1
    /\ rx.buf = <<90, 0, 45, 0, 180, 0, 0, 0, 90, 0, 0>>
    /\ Angles(servos) = <<90, 45, 180, 0, 90>>
    /\ events = <<>>

----------------------------------------------------------------------------
(* C21 *)

\* one line of the status text as documented: name, angle, degree sign
DegreeLine(sv) == sv.name \o ": " \o ToString(get_angle(sv)) \o "°"

\* the documented status text for five servos in joint order
DocumentedStatus(svs) ==
    "Servo Positions:" \o "\n" \o DegreeLine(At(svs, 0))
        \o "\n" \o DegreeLine(At(svs, 1)) \o "\n" \o DegreeLine(At(svs, 2))
        \o "\n" \o DegreeLine(At(svs, 3)) \o "\n" \o DegreeLine(At(svs, 4))

\* C21: whenever the loop is at its receive step and a SetAngles has been
\* processed (the status string has been built), the text last handed to the
\* display is "Servo Positions:" and five lines in joint order, each
\* "<name>: <angle>°" with the actuator's current get_angle() value.
C21_DisplayShowsAngles ==
    (pc = "recv" /\ servo_string # "") => oled = DocumentedStatus(servos)

----------------------------------------------------------------------------
(* C22 *)

\* the steps that hand the buffer to the socket or index into it
BufferInUse == {"recv", "match"} \cup {SetPc[k] : k \in 1..Len(SetPc)}

\* C22: at every receive step, whatever iterations came before, the
\* reusable buffer handed to the socket is exactly MAX_CONTROL_SIGNAL_SIZE
\* (11) bytes long, and it still is while the dispatch reads bytes 0..10.
C22_BufferLength ==
    pc \in BufferInUse =>
        /\ Len(ctrl_vec) = MAX_CONTROL_SIGNAL_SIZE
        /\ \A k \in 0..(MAX_CONTROL_SIGNAL_SIZE - 1) : At(ctrl_vec, k) \in 0..255

\* the buffer was reused for a ten-byte acknowledgment and is back at the
\* receive step, after a receive error as the second iteration
C22_Witness ==
    /\ pc = "recv"
    /\ received = 2
    /\ rx.kind = "Err"
    /\ rx.buf = <<90, 0, 45, 0, 180, 0, 0, 0, 90, 0, 0>>
    /\ Len(Calls("send_to")) = 1
    /\ Len(Calls("send_to")[1].what) = 10
    /\ ctrl_vec = Append(Calls("send_to")[1].what, 0)

----------------------------------------------------------------------------
(* wifi_setup.rs: the connect-retry loop of wifi(..) *)

\* retry_count += 1 on the u8 that the comparison with max_retries makes of
\* retry_count
u8_add_one(n) == (n + 1) % (U8Max + 1)

\* main is inside wifi(..), at line 75, for some max_retries; the loop's
\* variables hold the values the loop will start with
WifiInit ==
    /\ pc = "wifi"
    /\ servos = [k \in 1..5 |->
                    ServoNew(ServoNames[k], MIUZEI_MINI_MIN_DUTY,
                             MIUZEI_MINI_MAX_DUTY, MaxAngleDegrees)]
    /\ ctrl_vec = Zeros(MAX_CONTROL_SIGNAL_SIZE)
    /\ from_addr = "unassigned"
    /\ servo_string = ""
    /\ oled = StartupText
    /\ rx = [kind |-> "none", bytes |-> <<>>, src |-> "none",
             servos |-> servos, buf |-> ctrl_vec, oled |-> oled,
             from_addr |-> from_addr, send_failed |-> FALSE]
    /\ events = <<>>
    /\ received = 0
    /\ led = FALSE
    /\ timer = TimerAtLoopEntry
    /\ clock = FALSE
    /\ \E m \in 0..U8Max :
          wifi = [pc |-> "connect", max_retries |-> m, retry_count |-> 0,
                  failed |-> 0, calls |-> 0]

\* lines 82-86: wifi.connect() returns Ok and the loop is left
ConnectOk ==
    /\ pc = "wifi"
    /\ wifi.pc = "connect"
    /\ wifi' = [wifi EXCEPT !.calls = @ + 1, !.pc = "connected"]
    /\ UNCHANGED <<pc, servos, ctrl_vec, from_addr, servo_string, oled, rx, events,
                   received, hb>>

\* lines 87-94: wifi.connect() returns Err; retry_count is incremented, then
\* compared with max_retries: bail!, or the delay and another turn
ConnectErr ==
    /\ pc = "wifi"
    /\ wifi.pc = "connect"
    /\ LET n == u8_add_one(wifi.retry_count)
       IN  wifi' = [wifi EXCEPT !.calls = @ + 1,
                                !.failed = @ + 1,
                                !.retry_count = n,
                                !.pc = IF n >= wifi.max_retries THEN "bailed"
                                                                ELSE "connect"]
    /\ UNCHANGED <<pc, servos, ctrl_vec, from_addr, servo_string, oled, rx, events,
                   received, hb>>

WifiNext == ConnectOk \/ ConnectErr

WifiSpec == WifiInit /\ [][WifiNext]_vars

----------------------------------------------------------------------------
(* C23 *)

\* C23: for every max_retries in 0..255 the connect-retry loop ends: it
\* stops at the first successful connect (no connect call follows a
\* success), and it gives up after exactly max_retries failed connect
\* attempts, never more and never fewer.
\* Checked under WifiSpec.
C23_RetryLoopExact ==
    /\ wifi.failed <= wifi.max_retries
    /\ wifi.pc = "bailed" => wifi.failed = wifi.max_retries
    /\ wifi.pc = "connected" => wifi.calls = wifi.failed + 1

====
